---- MODULE Spec2Model ----
(***************************************************************************)
(* Threaded comments of the video backend: the Comment model               *)
(* (src/models/Comment.js), the comment routes (src/unnamed/part_002) and  *)
(* the entry points of the cache client they call (src/config/redis.js).   *)
(*                                                                         *)
(* Every request is a task that suspends at each store call (await), so a  *)
(* handler is a sequence of steps, one per store call, and steps of        *)
(* different requests interleave.  A request's arrival touches no shared   *)
(* state, so it is taken together with the handler's first store reads.    *)
(*                                                                         *)
(* An ObjectId is an opaque fixed-width token without "/": ids are the     *)
(* integers 1, 2, ... and thread.path is the sequence of its tokens, the   *)
(* token SLASH for "/" and an id for the 24 hex digits of that id.         *)
(***************************************************************************)
EXTENDS Integers, Sequences, FiniteSets, TLC

(* ------------------------------ bounds -------------------------------- *)
NumVideos == 2
NumUsers == 2
MaxReq == 2
ChainLen == 6
MaxNew == 1
LikedLen == 2
ApiLen == 3
NumTexts == 1
NumPages == 1
TickLen == 100
MaxClock == 400
NumReporters == 5
MaxPad == 1

(* ------------------------- program constants -------------------------- *)
MaxLevel == 5
NULL == 0
SLASH == 0
\* the number of flags at which a report sets moderation.status to pending
ReportThreshold == 5
\* the reasons 'spam', 'inappropriate', 'harassment', 'hate_speech', 'other'
NumReasons == 5
\* the reason 'spam', the first of them
SPAM == 1
\* req.user of a request without a valid token (optionalAuth): no user
ANONYMOUS == 0
\* the seconds a cached thread is kept, and the most comments of a thread
ThreadTTL == 300
\* redisClient.setComments(cacheKey, result, 600): seconds a list page is kept
ListTTL == 600
ThreadLimitCap == 100
\* the default limit of a thread request and of a list request
ThreadLimit == 50
ListLimit == 20
\* Joi.string().max(500) and maxlength: [500, ...]: the most characters of a
\* comment's content
MaxContent == 500
\* a text is modelled by its lengths: the number PadUnit * pad + core stands
\* for a text of core characters between pad characters of whitespace.  The
\* comments of the initial stores have a text of two characters; an edit puts
\* one of the texts 1, 2, ... in its place
POSTED == 2
PadUnit == MaxContent + MaxContent

Videos == 1..NumVideos
Users == 1..NumUsers
Slots == 1..MaxReq
AdminUsers == {1}
Reasons == 1..NumReasons

VARIABLES comments, videos, nextId, req, last, snap

\* the cache (the keys Redis holds, each with its value and expiry), the time
\* in seconds, the state of the cache connection, what the last list or
\* thread response carried, and the inputs of the last request to arrive
VARIABLES cache, clock, redis, view, inp

vars == <<comments, videos, nextId, req, last, snap, cache, clock, redis, view, inp>>

Min(a, b) == IF a < b THEN a ELSE b

(* --------------------------- pure functions --------------------------- *)

\* new RegExp(`/${id}(/|$)`) tested against a thread.path
PathMatch(path, id) ==
  \E i \in 1..Len(path) :
     /\ path[i] = SLASH
     /\ i + 1 <= Len(path)
     /\ path[i + 1] = id
     /\ (i + 1 = Len(path) \/ path[i + 2] = SLASH)

\* pre('save'): the thread.path of a reply under parent (id pid)
ChildPath(parent, pid) ==
  IF Len(parent.path) > 0
    THEN parent.path \o <<SLASH, pid>>
    ELSE <<SLASH, pid>>

\* pre('save'): the thread.level of a reply under parent
ChildLevel(parent) == parent.level + 1

\* a nesting check that lets a reply under a level-MaxLevel parent through
DepthLimitReachedOffByOne(parent) == parent.level > MaxLevel

\* router.post('/'): the nesting check on the parent
DepthLimitReached(parent) == parent.level >= MaxLevel

\* the filter of deleteMany and of getCommentThread: the comment itself or a
\* comment whose path holds the id as a segment
Matched(cs, id) ==
  {c \in DOMAIN cs : c = id \/ PathMatch(cs[c].path, id)}

\* a recount that counts the whole subtree below pid, not its direct replies
RemainingDescendants(cs, pid) ==
  Cardinality({c \in DOMAIN cs : PathMatch(cs[c].path, pid)})

\* countDocuments({ parentId })
RemainingReplies(cs, pid) ==
  Cardinality({c \in DOMAIN cs : cs[c].parentId = pid})

\* a decrement that assumes one document was removed
CommentsCountDecrementByOne(deletedCount) == -1

\* the $inc of stats.commentsCount after deleteMany
CommentsCountDecrement(deletedCount) == -deletedCount

\* the store without the documents of D
Without(cs, D) == [c \in (DOMAIN cs) \ D |-> cs[c]]

\* the store with document id added
With(cs, id, doc) ==
  [c \in (DOMAIN cs) \cup {id} |-> IF c = id THEN doc ELSE cs[c]]

(* ------------------------------- state -------------------------------- *)

MaxId == ChainLen + MaxNew

\* a request slot that holds no request.  The fields of a request in flight:
\* op and pc (the handler and its position), user (req.user), video, cid (the
\* comment: the new one of a create, the target of a delete or like), parent
\* (parentId), level and path (thread, as set before the insert), n
\* (deletedCount; the loaded likesCount), cnt (remainingReplies), likes, mod
\* and stale (the loaded document of a like), deep (whether the parent a
\* create read was at the nesting limit), arg (the content of an edit, the
\* reason of a report, the limit or page of a read) and data (the result of a
\* read)
IdleReq ==
  [op |-> "none", pc |-> "idle", user |-> 0, video |-> 0, cid |-> NULL,
   parent |-> NULL, level |-> 0, path |-> <<>>, n |-> 0, cnt |-> 0,
   likes |-> <<>>, mod |-> "none", stale |-> FALSE, deep |-> FALSE,
   arg |-> 0, data |-> <<>>]

\* no response yet
NoResponse == [op |-> "none", status |-> 0, err |-> "", out |-> -1, deep |-> FALSE]

\* the response of a request: op, the HTTP status, which error, the number in
\* its data (-1: none), and whether a create read a parent at the nesting limit
Response(op, status, err, out, deep) ==
  [op |-> op, status |-> status, err |-> err, out |-> out, deep |-> deep]

\* a slot that can take a new request
Free(r) == req[r].pc = "idle"

\* no request is in flight
Quiet == \A r \in Slots : Free(r)

\* new Comment({content, videoId, userId, parentId}) with the schema defaults
NewComment(v, u, p, level, path) ==
  [videoId |-> v, userId |-> u, parentId |-> p, level |-> level, path |-> path,
   repliesCount |-> 0, likes |-> <<>>, likesCount |-> 0,
   content |-> POSTED, isEdited |-> FALSE,
   flags |-> <<>>, reportsCount |-> 0, status |-> "approved"]

\* the thread.path of the i-th comment of a reply chain 1, 2, ..., i
ChainPath(i) == [j \in 1..(2 * (i - 1)) |-> IF j % 2 = 1 THEN SLASH ELSE j \div 2]

\* a store the program reaches by k creates: comment 1 on video 1 and each
\* next comment a reply to the one before
Chain(k) ==
  [i \in 1..k |->
     [videoId |-> 1, userId |-> 1 + (i % NumUsers), parentId |-> i - 1,
      level |-> i - 1, path |-> ChainPath(i),
      repliesCount |-> IF i < k THEN 1 ELSE 0,
      likes |-> <<>>, likesCount |-> 0,
      content |-> POSTED, isEdited |-> FALSE,
      flags |-> <<>>, reportsCount |-> 0, status |-> "approved"]]

\* the longest chain the nesting limit allows has levels 0..MaxLevel
ChainStore == Chain(Min(ChainLen, MaxLevel + 1))

EmptyStore == [i \in {} |-> NewComment(1, 1, NULL, 0, <<>>)]

\* no list or thread response yet
NoView == [cached |-> FALSE, data |-> <<>>, age |-> 0]

\* no request has arrived yet
NoInput ==
  [op |-> "none", user |-> 0, video |-> 0, target |-> NULL, arg |-> 0, reporters |-> {}]

\* nothing remembered of the store yet
NoSnap ==
  [comments |-> EmptyStore, videos |-> [v \in Videos |-> 0], rq |-> IdleReq, cache |-> {}]

\* the store, the cache and the request as a request found them on arrival
Snap(rq) == [comments |-> comments, videos |-> videos, rq |-> rq, cache |-> cache]

\* the inputs of a request (reporters: the users who have sent a report with
\* reason 'spam', where a specification keeps track of them)
Input(op, user, video, target, arg) ==
  [op |-> op, user |-> user, video |-> video, target |-> target, arg |-> arg,
   reporters |-> {}]

\* at start the cache is empty and connected
CacheInit ==
  /\ cache = {}
  /\ clock = 0
  /\ redis = "ready"
  /\ view = NoView
  /\ inp = NoInput

Init ==
  /\ \/ /\ comments = EmptyStore
        /\ videos = [v \in Videos |-> 0]
     \/ /\ comments = ChainStore
        /\ videos = [v \in Videos |-> IF v = 1 THEN Cardinality(DOMAIN ChainStore) ELSE 0]
  /\ nextId = ChainLen + 1
  /\ req = [r \in Slots |-> IdleReq]
  /\ last = NoResponse
  /\ snap = NoSnap
  /\ CacheInit

(* ------------------------- the cache client --------------------------- *)

\* generateKey: `pluto:${namespace}:${key}`.  A key is its template and the
\* values put into it; two keys are the same string when both are the same
GenerateKey(namespace, key) == [ns |-> namespace, form |-> key.form, args |-> key.args]

\* the cacheKey of a page of a video's comment list
ListCacheKey(v, page, limit, sort) ==
  [form |-> "comments:video:${videoId}:page:${page}:limit:${limit}:_${sortBy}_${sortOrder}",
   args |-> <<v, page, limit, sort>>]

\* the cacheKey of a thread
ThreadCacheKey(id, limit) == [form |-> "thread_${id}_${limit}", args |-> <<id, limit>>]

\* the keys the write handlers hand to redisClient.del
VideoDelKey(v) == [form |-> "${videoId}_*", args |-> <<v>>]
ThreadDelKey(id) == [form |-> "*${id}*", args |-> <<id>>]

\* the time to live Redis keeps an entry for
Live(e, t) == t < e.at + e.ttl

\* client.setEx(key, ttl, value) at time t
ClientSetEx(c, k, ttl, val, t) ==
  {e \in c : e.key # k} \cup {[key |-> k, val |-> val, at |-> t, ttl |-> ttl]}

\* client.get(key): the entries stored under the key (none: null)
ClientGet(c, k) == {e \in c : e.key = k}

\* client.del(key): DEL removes the key it is given
ClientDel(c, k) == {e \in c : e.key # k}

\* RedisSet that leaves the time to live of set() at its default of an hour
RedisSetDefaultTtl(namespace, key, val, ttl) ==
  IF redis = "ready"
    THEN ClientSetEx(cache, GenerateKey(namespace, key), 3600, val, clock)
    ELSE cache

\* redisClient.set / setComments: nothing when not connected, and an error of
\* the client is caught
RedisSet(namespace, key, val, ttl) ==
  IF redis = "ready"
    THEN ClientSetEx(cache, GenerateKey(namespace, key), ttl, val, clock)
    ELSE cache

\* redisClient.get / getComments: null when not connected or on an error
RedisGet(namespace, key) ==
  IF redis = "ready" THEN ClientGet(cache, GenerateKey(namespace, key)) ELSE {}

\* redisClient.del on cache c
RedisDel(c, namespace, key) ==
  IF redis = "ready" THEN ClientDel(c, GenerateKey(namespace, key)) ELSE c

\* the cache after the two del calls of a write handler
Invalidate(v, id) ==
  RedisDel(RedisDel(cache, "comments", VideoDelKey(v)), "comment_threads", ThreadDelKey(id))

\* class RedisClient: whether it has a method invalidateVideo
InvalidateVideoDefined == FALSE

\* the status a create or delete handler answers with once its store writes
\* are done: the array handed to Promise.all calls redisClient.invalidateVideo,
\* a call of undefined throws a TypeError, and the catch block answers 500
AfterInvalidate(ok) == IF InvalidateVideoDefined THEN ok ELSE 500

(* ---------------------- validation of the content -------------------- *)

Text(pad, core) == PadUnit * pad + core
Pad(text) == text \div PadUnit
Core(text) == text % PadUnit

\* the length of a text, and the text that the schema's trim: true stores
RawLength(text) == Pad(text) + Core(text)
Trim(text) == Text(0, Core(text))

\* createCommentSchema / updateCommentSchema: content is
\* Joi.string().max(500).required(), which refuses the empty string and
\* counts the characters of the text as it was sent
JoiAccepts(text) == RawLength(text) >= 1 /\ RawLength(text) <= MaxContent

\* the validation of save(): required and maxlength on the trimmed content
SchemaAccepts(text) == Core(Trim(text)) >= 1 /\ Core(Trim(text)) <= MaxContent

(* --------------------------- POST /comments --------------------------- *)

\* Video.findById, Comment.findById(parentId), the checks on the parent, and
\* new Comment (which draws the _id) with a content that passes validation
CreateChecked(r, u, v, p, content) ==
  /\ Free(r)
  /\ IF v \notin Videos
       THEN /\ last' = Response("create", 404, "video", -1, FALSE)
            /\ UNCHANGED <<req, nextId>>
     ELSE IF p # NULL /\ (p \notin DOMAIN comments \/ comments[p].videoId # v)
       THEN /\ last' = Response("create", 400, "parent", -1, FALSE)
            /\ UNCHANGED <<req, nextId>>
     ELSE IF p # NULL /\ DepthLimitReached(comments[p])
       THEN /\ last' = Response("create", 400, "depth", -1,
                                comments[p].level >= MaxLevel)
            /\ UNCHANGED <<req, nextId>>
     ELSE /\ nextId <= MaxId
          /\ req' = [req EXCEPT ![r] =
                       [IdleReq EXCEPT !.op = "create", !.user = u, !.video = v,
                                       !.parent = p, !.cid = nextId,
                                       !.arg = content,
                                       !.deep = p # NULL /\ comments[p].level >= MaxLevel,
                                       !.pc = IF p # NULL THEN "c_presave" ELSE "c_insert"]]
          /\ nextId' = nextId + 1
          /\ UNCHANGED last
  /\ UNCHANGED <<comments, videos>>
  /\ UNCHANGED <<cache, clock, redis, view>>

\* the create handler for the content of every comment of the other routes'
\* specifications
CreateStart(r, u, v, p) == CreateChecked(r, u, v, p, POSTED)

\* router.post('/') with content text for a comment that is no reply on the
\* stored video v: a text that Joi refuses is answered 400; one that the
\* schema refuses makes comment.save() throw before anything is written, and
\* the catch answers 500
PostContent(r, u, v, text) ==
  IF ~JoiAccepts(text)
    THEN /\ Free(r)
         /\ last' = Response("create", 400, "validation", -1, FALSE)
         /\ UNCHANGED <<comments, videos, nextId, req, cache, clock, redis, view>>
  ELSE IF ~SchemaAccepts(text)
    THEN /\ Free(r)
         /\ last' = Response("create", 500, "save", -1, FALSE)
         /\ UNCHANGED <<comments, videos, nextId, req, cache, clock, redis, view>>
  ELSE CreateChecked(r, u, v, NULL, Trim(text))

\* comment.save(), pre('save'): findById(parentId) and the thread fields
CreatePreSave(r) ==
  /\ req[r].pc = "c_presave"
  /\ LET p == req[r].parent IN
     req' = [req EXCEPT ![r] =
               IF p \in DOMAIN comments
                 THEN [@ EXCEPT !.level = ChildLevel(comments[p]),
                                !.path = ChildPath(comments[p], p),
                                !.pc = "c_insert"]
                 ELSE [@ EXCEPT !.pc = "c_insert"]]
  /\ UNCHANGED <<comments, videos, nextId, last, snap>>
  /\ UNCHANGED <<cache, clock, redis, view, inp>>

\* comment.save(): the insert
CreateInsert(r) ==
  /\ req[r].pc = "c_insert"
  /\ comments' = With(comments, req[r].cid,
                      [NewComment(req[r].video, req[r].user, req[r].parent,
                                  req[r].level, req[r].path)
                         EXCEPT !.content = req[r].arg])
  /\ req' = [req EXCEPT ![r].pc = "c_incvideo"]
  /\ UNCHANGED <<videos, nextId, last, snap>>
  /\ UNCHANGED <<cache, clock, redis, view, inp>>

\* Video.findByIdAndUpdate(videoId, {$inc: {'stats.commentsCount': 1}})
CreateIncVideo(r) ==
  /\ req[r].pc = "c_incvideo"
  /\ videos' = [videos EXCEPT ![req[r].video] = @ + 1]
  /\ req' = [req EXCEPT ![r].pc =
               IF req[r].parent # NULL THEN "c_incparent" ELSE "c_respond"]
  /\ UNCHANGED <<comments, nextId, last, snap>>
  /\ UNCHANGED <<cache, clock, redis, view, inp>>

\* an increment of the reply count of every ancestor of the new comment
CreateIncAncestors(r) ==
  /\ req[r].pc = "c_incparent"
  /\ comments' = [c \in DOMAIN comments |->
                    IF c = req[r].parent \/ PathMatch(req[r].path, c)
                      THEN [comments[c] EXCEPT !.repliesCount = @ + 1]
                      ELSE comments[c]]
  /\ req' = [req EXCEPT ![r].pc = "c_respond"]
  /\ UNCHANGED <<videos, nextId, last, snap>>
  /\ UNCHANGED <<cache, clock, redis, view, inp>>

\* Comment.findByIdAndUpdate(parentId, {$inc: {'stats.repliesCount': 1}})
CreateIncParent(r) ==
  /\ req[r].pc = "c_incparent"
  /\ LET p == req[r].parent IN
     comments' = IF p \in DOMAIN comments
                   THEN [comments EXCEPT ![p].repliesCount = @ + 1]
                   ELSE comments
  /\ req' = [req EXCEPT ![r].pc = "c_respond"]
  /\ UNCHANGED <<videos, nextId, last, snap>>
  /\ UNCHANGED <<cache, clock, redis, view, inp>>

\* the cache invalidation and the response
CreateRespond(r) ==
  /\ req[r].pc = "c_respond"
  /\ last' = Response("create", AfterInvalidate(201), "", -1, req[r].deep)
  /\ req' = [req EXCEPT ![r] = IdleReq]
  /\ UNCHANGED <<comments, videos, nextId, snap>>
  /\ cache' = Invalidate(req[r].video,
                        IF req[r].parent # NULL THEN req[r].parent ELSE req[r].cid)
  /\ UNCHANGED <<clock, redis, view, inp>>

(* ------------------------ DELETE /comments/:id ------------------------ *)

\* Comment.findById and the ownership check
DeleteStart(r, u, t) ==
  /\ Free(r)
  /\ IF t \notin DOMAIN comments
       THEN /\ last' = Response("delete", 404, "comment", -1, FALSE)
            /\ UNCHANGED req
     ELSE IF comments[t].userId # u /\ u \notin AdminUsers
       THEN /\ last' = Response("delete", 403, "owner", -1, FALSE)
            /\ UNCHANGED req
     ELSE /\ req' = [req EXCEPT ![r] =
                       [IdleReq EXCEPT !.op = "delete", !.cid = t,
                                       !.video = comments[t].videoId,
                                       !.parent = comments[t].parentId,
                                       !.pc = "d_deletemany"]]
          /\ UNCHANGED last
  /\ UNCHANGED <<comments, videos, nextId>>
  /\ UNCHANGED <<cache, clock, redis, view>>

\* Comment.deleteMany: the comment and every comment whose path holds its id
DeleteMany(r) ==
  /\ req[r].pc = "d_deletemany"
  /\ LET D == Matched(comments, req[r].cid) IN
     /\ comments' = Without(comments, D)
     /\ req' = [req EXCEPT ![r].n = Cardinality(D), ![r].pc = "d_incvideo"]
  /\ UNCHANGED <<videos, nextId, last, snap>>
  /\ UNCHANGED <<cache, clock, redis, view, inp>>

\* Video.findByIdAndUpdate(videoId, {$inc: {'stats.commentsCount': -deletedCount}})
DeleteIncVideo(r) ==
  /\ req[r].pc = "d_incvideo"
  /\ videos' = [videos EXCEPT ![req[r].video] = @ + CommentsCountDecrement(req[r].n)]
  /\ req' = [req EXCEPT ![r].pc =
               IF req[r].parent # NULL THEN "d_count" ELSE "d_respond"]
  /\ UNCHANGED <<comments, nextId, last, snap>>
  /\ UNCHANGED <<cache, clock, redis, view, inp>>

\* Comment.countDocuments({ parentId })
DeleteCount(r) ==
  /\ req[r].pc = "d_count"
  /\ req' = [req EXCEPT ![r].cnt = RemainingReplies(comments, req[r].parent),
                        ![r].pc = "d_set"]
  /\ UNCHANGED <<comments, videos, nextId, last, snap>>
  /\ UNCHANGED <<cache, clock, redis, view, inp>>

\* Comment.findByIdAndUpdate(parentId, {'stats.repliesCount': remainingReplies})
DeleteSetParent(r) ==
  /\ req[r].pc = "d_set"
  /\ LET p == req[r].parent IN
     comments' = IF p \in DOMAIN comments
                   THEN [comments EXCEPT ![p].repliesCount = req[r].cnt]
                   ELSE comments
  /\ req' = [req EXCEPT ![r].pc = "d_respond"]
  /\ UNCHANGED <<videos, nextId, last, snap>>
  /\ UNCHANGED <<cache, clock, redis, view, inp>>

\* the cache invalidation and the response with data.deletedCount
DeleteRespond(r) ==
  /\ req[r].pc = "d_respond"
  /\ LET st == AfterInvalidate(200) IN
     last' = Response("delete", st, "", IF st = 200 THEN req[r].n ELSE -1, FALSE)
  /\ req' = [req EXCEPT ![r] = IdleReq]
  /\ UNCHANGED <<comments, videos, nextId, snap>>
  /\ cache' = Invalidate(req[r].video, req[r].cid)
  /\ UNCHANGED <<clock, redis, view, inp>>

(* ---------------------- POST /comments/:id/like ----------------------- *)

\* the positions at which a handler holds a loaded document it is about to save
Saving == {"l_save", "e_save", "r_save"}

\* isLikedBy
IsLikedBy(likes, u) == \E i \in 1..Len(likes) : likes[i] = u

\* the filter of removeLike
WithoutUser(likes, u) ==
  LET Keep(x) == x # u IN SelectSeq(likes, Keep)

\* addLike without its isLikedBy test
AddLikeDocAlways(d, u) ==
  [d EXCEPT !.likes = Append(d.likes, u),
            !.likesCount = Len(d.likes) + 1,
            !.mod = "push"]

\* addLike before its save, on the loaded document d: mod is how the likes
\* array was changed ("push": an element pushed, "set": the array replaced)
AddLikeDoc(d, u) ==
  IF ~IsLikedBy(d.likes, u)
    THEN [d EXCEPT !.likes = Append(d.likes, u),
                   !.likesCount = Len(d.likes) + 1,
                   !.mod = "push"]
    ELSE d

\* removeLike before its save; an assignment of an equal array modifies nothing
RemoveLikeDoc(d, u) ==
  LET kept == WithoutUser(d.likes, u) IN
  [d EXCEPT !.likes = kept,
            !.likesCount = Len(kept),
            !.mod = IF kept = d.likes THEN d.mod ELSE "set"]

\* pre('save'): likesCount follows a modified likes array
PreSaveLikes(d) ==
  IF d.mod # "none" THEN [d EXCEPT !.likesCount = Len(d.likes)] ELSE d

\* like methods that keep likesCount by blind arithmetic
LikeMethodBlind(d, u, which) ==
  IF which = "add"
    THEN [d EXCEPT !.likes = IF IsLikedBy(d.likes, u) THEN @ ELSE Append(@, u),
                   !.likesCount = @ + 1, !.mod = "push"]
    ELSE [d EXCEPT !.likes = WithoutUser(d.likes, u),
                   !.likesCount = @ - 1, !.mod = "set"]

\* the document a like method hands to the store
LikeMethod(d, u, which) ==
  PreSaveLikes(IF which = "add" THEN AddLikeDoc(d, u) ELSE RemoveLikeDoc(d, u))

\* which method a call runs: the route toggles on isLikedBy
WhichMethod(mode, likes, u) ==
  IF mode = "toggle"
    THEN (IF IsLikedBy(likes, u) THEN "remove" ELSE "add")
    ELSE mode

\* what save() writes of document d to the stored document: a pushed like is
\* a $push of that element, a replaced array is a $set of the whole array, and
\* likesCount is a $set of the in-memory value
Persist(stored, d, u) ==
  IF d.mod = "push"
    THEN [stored EXCEPT !.likes = Append(stored.likes, u), !.likesCount = d.likesCount]
  ELSE IF d.mod = "set"
    THEN [stored EXCEPT !.likes = d.likes, !.likesCount = d.likesCount]
  ELSE stored

\* Comment.findById; mode is "toggle" for the route and "add" or "remove" for
\* a call of the method on the loaded document
LikeStart(r, u, t, mode) ==
  /\ Free(r)
  /\ IF t \notin DOMAIN comments
       THEN /\ last' = Response("like", 404, "comment", -1, FALSE)
            /\ UNCHANGED req
       ELSE /\ req' = [req EXCEPT ![r] =
                         [IdleReq EXCEPT !.op = mode, !.user = u, !.cid = t,
                                         !.video = comments[t].videoId,
                                         !.likes = comments[t].likes,
                                         !.n = comments[t].likesCount,
                                         !.pc = "l_save"]]
            /\ UNCHANGED last
  /\ UNCHANGED <<comments, videos, nextId>>
  /\ UNCHANGED <<cache, clock, redis, view>>

\* addLike or removeLike and its save(): a replaced array is written only if
\* no save has changed the document's arrays since it was loaded (the version
\* key), a pushed like always; the document must still be stored
LikeSave(r) ==
  /\ req[r].pc = "l_save"
  /\ LET t == req[r].cid
         u == req[r].user
         loaded == [likes |-> req[r].likes, likesCount |-> req[r].n, mod |-> "none"]
         d == LikeMethod(loaded, u, WhichMethod(req[r].op, req[r].likes, u))
         fails == d.mod # "none" /\ (t \notin DOMAIN comments \/ (d.mod = "set" /\ req[r].stale))
     IN
     IF fails
       THEN /\ last' = Response("like", 500, "save", -1, FALSE)
            /\ req' = [req EXCEPT ![r] = IdleReq]
            /\ UNCHANGED comments
     ELSE IF d.mod = "none"
       THEN /\ req' = [req EXCEPT ![r].likes = d.likes, ![r].n = d.likesCount,
                                  ![r].pc = "l_respond"]
            /\ UNCHANGED <<comments, last>>
     ELSE /\ comments' = [comments EXCEPT ![t] = Persist(@, d, u)]
          /\ req' = [q \in Slots |->
                       IF q = r
                         THEN [req[r] EXCEPT !.likes = d.likes, !.n = d.likesCount,
                                             !.pc = "l_respond"]
                       ELSE IF req[q].pc \in Saving /\ req[q].cid = t
                         THEN [req[q] EXCEPT !.stale = TRUE]
                       ELSE req[q]]
          /\ UNCHANGED last
  /\ UNCHANGED <<videos, nextId, snap>>
  /\ UNCHANGED <<cache, clock, redis, view, inp>>

\* the cache invalidation and the response with data.likesCount
LikeRespond(r) ==
  /\ req[r].pc = "l_respond"
  /\ last' = Response("like", 200, "", req[r].n, FALSE)
  /\ req' = [req EXCEPT ![r] = IdleReq]
  /\ UNCHANGED <<comments, videos, nextId, snap>>
  /\ cache' = Invalidate(req[r].video, req[r].cid)
  /\ UNCHANGED <<clock, redis, view, inp>>

(* ------------------------- PUT /comments/:id -------------------------- *)

\* the requests after request r saved comment t: r goes on as mine, and every
\* other loaded copy of t is behind the stored version
AfterSave(r, t, mine) ==
  [q \in Slots |->
     IF q = r THEN mine
     ELSE IF req[q].pc \in Saving /\ req[q].cid = t
       THEN [req[q] EXCEPT !.stale = TRUE]
     ELSE req[q]]

\* EditStart with the ownership check of the delete route (author or admin)
EditStartOrAdmin(r, u, t, content) ==
  /\ Free(r)
  /\ IF t \notin DOMAIN comments
       THEN /\ last' = Response("edit", 404, "comment", -1, FALSE)
            /\ UNCHANGED req
     ELSE IF comments[t].userId # u /\ u \notin AdminUsers
       THEN /\ last' = Response("edit", 403, "owner", -1, FALSE)
            /\ UNCHANGED req
     ELSE /\ req' = [req EXCEPT ![r] =
                       [IdleReq EXCEPT !.op = "edit", !.user = u, !.cid = t,
                                       !.video = comments[t].videoId,
                                       !.arg = content, !.pc = "e_save"]]
          /\ UNCHANGED last
  /\ UNCHANGED <<comments, videos, nextId>>
  /\ UNCHANGED <<cache, clock, redis, view>>

\* Comment.findById and the ownership check (the author only)
EditStart(r, u, t, content) ==
  /\ Free(r)
  /\ IF t \notin DOMAIN comments
       THEN /\ last' = Response("edit", 404, "comment", -1, FALSE)
            /\ UNCHANGED req
     ELSE IF comments[t].userId # u
       THEN /\ last' = Response("edit", 403, "owner", -1, FALSE)
            /\ UNCHANGED req
     ELSE /\ req' = [req EXCEPT ![r] =
                       [IdleReq EXCEPT !.op = "edit", !.user = u, !.cid = t,
                                       !.video = comments[t].videoId,
                                       !.arg = content, !.pc = "e_save"]]
          /\ UNCHANGED last
  /\ UNCHANGED <<comments, videos, nextId>>
  /\ UNCHANGED <<cache, clock, redis, view>>

\* router.put('/:id') by the author u of the stored comment t with content
\* text: the validation as in PostContent
PutContent(r, u, t, text) ==
  IF ~JoiAccepts(text)
    THEN /\ Free(r)
         /\ last' = Response("edit", 400, "validation", -1, FALSE)
         /\ UNCHANGED <<comments, videos, nextId, req, cache, clock, redis, view>>
  ELSE IF ~SchemaAccepts(text)
    THEN /\ Free(r)
         /\ last' = Response("edit", 500, "save", -1, FALSE)
         /\ UNCHANGED <<comments, videos, nextId, req, cache, clock, redis, view>>
  ELSE EditStart(r, u, t, Trim(text))

\* comment.save() of the new content and isEdited (the entries pushed onto
\* editHistory, which nothing reads, are left out); the document must still
\* be stored
EditSave(r) ==
  /\ req[r].pc = "e_save"
  /\ LET t == req[r].cid IN
     IF t \notin DOMAIN comments
       THEN /\ last' = Response("edit", 500, "save", -1, FALSE)
            /\ req' = [req EXCEPT ![r] = IdleReq]
            /\ UNCHANGED comments
       ELSE /\ comments' = [comments EXCEPT ![t].content = req[r].arg,
                                            ![t].isEdited = TRUE]
            /\ req' = AfterSave(r, t, [req[r] EXCEPT !.pc = "e_respond"])
            /\ UNCHANGED last
  /\ UNCHANGED <<videos, nextId, snap>>
  /\ UNCHANGED <<cache, clock, redis, view, inp>>

\* populate, the cache invalidation and the response
EditRespond(r) ==
  /\ req[r].pc = "e_respond"
  /\ last' = Response("edit", 200, "", req[r].arg, FALSE)
  /\ req' = [req EXCEPT ![r] = IdleReq]
  /\ UNCHANGED <<comments, videos, nextId, snap>>
  /\ cache' = Invalidate(req[r].video, req[r].cid)
  /\ UNCHANGED <<clock, redis, view, inp>>

(* --------------------- POST /comments/:id/report ---------------------- *)

\* moderation.flags.includes(reason)
Flagged(flags, reason) == \E i \in 1..Len(flags) : flags[i] = reason

RECURSIVE Dedup(_)
\* [...new Set(flags)]: each value once, at its first place
Dedup(flags) ==
  IF flags = <<>> THEN <<>>
  ELSE LET front == Dedup(SubSeq(flags, 1, Len(flags) - 1))
           x == flags[Len(flags)]
       IN IF Flagged(front, x) THEN front ELSE Append(front, x)

\* AddFlag that sets the status only above the threshold
AddFlagLate(d, reason) ==
  LET n == d.reportsCount + 1 IN
  [d EXCEPT !.flags = Dedup(Append(d.flags, reason)),
            !.reportsCount = n,
            !.status = IF n > ReportThreshold THEN "pending" ELSE d.status]

\* the loaded document d after the handler has added the flag
AddFlag(d, reason) ==
  LET n == d.reportsCount + 1 IN
  [d EXCEPT !.flags = Dedup(Append(d.flags, reason)),
            !.reportsCount = n,
            !.status = IF n >= ReportThreshold THEN "pending" ELSE d.status]

\* the check of the reason, Comment.findById and the flags test; a reason
\* already flagged is answered at once
ReportStart(r, u, t, reason) ==
  /\ Free(r)
  /\ IF reason \notin Reasons
       THEN /\ last' = Response("report", 400, "reason", -1, FALSE)
            /\ UNCHANGED req
     ELSE IF t \notin DOMAIN comments
       THEN /\ last' = Response("report", 404, "comment", -1, FALSE)
            /\ UNCHANGED req
     ELSE IF Flagged(comments[t].flags, reason)
       THEN /\ last' = Response("report", 200, "", -1, FALSE)
            /\ UNCHANGED req
     ELSE /\ req' = [req EXCEPT ![r] =
                       [IdleReq EXCEPT !.op = "report", !.user = u, !.cid = t,
                                       !.video = comments[t].videoId,
                                       !.arg = reason,
                                       !.data = <<AddFlag(comments[t], reason)>>,
                                       !.pc = "r_save"]]
          /\ UNCHANGED last
  /\ UNCHANGED <<comments, videos, nextId>>
  /\ UNCHANGED <<cache, clock, redis, view>>

\* comment.save(): flags was replaced as a whole, so the write carries the
\* version the document was loaded with and fails when a save has changed the
\* document's arrays since, or when the document is no longer stored
ReportSave(r) ==
  /\ req[r].pc = "r_save"
  /\ LET t == req[r].cid
         d == req[r].data[1]
     IN
     IF t \notin DOMAIN comments \/ req[r].stale
       THEN /\ last' = Response("report", 500, "save", -1, FALSE)
            /\ req' = [req EXCEPT ![r] = IdleReq]
            /\ UNCHANGED comments
       ELSE /\ comments' = [comments EXCEPT ![t].flags = d.flags,
                                            ![t].reportsCount = d.reportsCount,
                                            ![t].status = d.status]
            /\ req' = AfterSave(r, t, [req[r] EXCEPT !.data = <<>>, !.pc = "r_respond"])
            /\ UNCHANGED last
  /\ UNCHANGED <<videos, nextId, snap>>
  /\ UNCHANGED <<cache, clock, redis, view, inp>>

\* the cache invalidation and the response
ReportRespond(r) ==
  /\ req[r].pc = "r_respond"
  /\ last' = Response("report", 200, "", -1, FALSE)
  /\ req' = [req EXCEPT ![r] = IdleReq]
  /\ UNCHANGED <<comments, videos, nextId, snap>>
  /\ cache' = Invalidate(req[r].video, req[r].cid)
  /\ UNCHANGED <<clock, redis, view, inp>>

(* ----------------------- a failing store call ------------------------ *)

\* the positions of a create or delete handler after its write to the
\* comment collection and before the last of its counter updates
BetweenWrites == {"c_incvideo", "c_incparent", "d_incvideo", "d_count", "d_set"}

\* the next store call of the handler rejects (or the process stops): the
\* catch block answers 500 and the remaining updates are not made
Abandon(r) ==
  /\ req[r].pc \in BetweenWrites
  /\ last' = Response(req[r].op, 500, "abandoned", -1, FALSE)
  /\ req' = [req EXCEPT ![r] = IdleReq]
  /\ UNCHANGED <<comments, videos, nextId, snap>>
  /\ UNCHANGED <<cache, clock, redis, view, inp>>

(* ------------------- GET /comments/video/:videoId --------------------- *)

\* what a list or thread response carried: whether it came from the cache,
\* its comments, and for a cached one the seconds since it was stored
View(cached, data, age) == [cached |-> cached, data |-> data, age |-> age]

\* redisClient.getComments(cacheKey): a cached page is the response
ListStart(r, v, page, limit, sort) ==
  /\ Free(r)
  /\ LET hit == RedisGet("comments", ListCacheKey(v, page, limit, sort)) IN
     IF hit # {}
       THEN /\ \E e \in hit :
                 /\ view' = View(TRUE, e.val, clock - e.at)
                 /\ last' = Response("list", 200, "", Len(e.val), FALSE)
            /\ UNCHANGED req
       ELSE /\ req' = [req EXCEPT ![r] =
                         [IdleReq EXCEPT !.op = "list", !.video = v, !.arg = page,
                                         !.pc = "g_find"]]
            /\ UNCHANGED <<last, view>>
  /\ UNCHANGED <<comments, videos, nextId, cache, clock, redis>>

\* Video.findById, then Comment.getVideoComments(videoId, options): the
\* Comment model has no static of that name, so the call throws a TypeError
\* and the catch block answers 500
ListFind(r) ==
  /\ req[r].pc = "g_find"
  /\ last' = IF req[r].video \notin Videos
               THEN Response("list", 404, "video", -1, FALSE)
               ELSE Response("list", 500, "fetch", -1, FALSE)
  /\ req' = [req EXCEPT ![r] = IdleReq]
  /\ UNCHANGED <<comments, videos, nextId, snap>>
  /\ UNCHANGED <<cache, clock, redis, view, inp>>

(* ----------------------- GET /comments/:id/thread --------------------- *)

\* Before for a sort by createdAt alone
BeforeCreatedAt(cs, c, d) == c <= d

\* sort({'thread.level': 1, createdAt: 1}): c comes no later than d (comments
\* are created in the order of their ids)
Before(cs, c, d) ==
  \/ cs[c].level < cs[d].level
  \/ cs[c].level = cs[d].level /\ c <= d

RECURSIVE SortThread(_, _)
\* the comments S of store cs in that order
SortThread(cs, S) ==
  IF S = {} THEN <<>>
  ELSE LET m == CHOOSE c \in S : \A d \in S : Before(cs, c, d)
       IN <<m>> \o SortThread(cs, S \ {m})

\* the fields of a lean comment document that a reader of a thread looks at
ThreadDoc(cs, c) == [id |-> c, content |-> cs[c].content]

\* Comment.getCommentThread(commentId, {limit})
GetCommentThread(cs, id, limit) ==
  LET S == {c \in DOMAIN cs : /\ c = id \/ PathMatch(cs[c].path, id)
                              /\ cs[c].status = "approved"}
      sorted == SortThread(cs, S)
      first == SubSeq(sorted, 1, Min(limit, Len(sorted)))
  IN [i \in 1..Len(first) |-> ThreadDoc(cs, first[i])]

\* comment.isLiked as the thread handler sets it for user u on a document of
\* comment c; a request without a user leaves the field out
IsLikedField(cs, c, u) ==
  IF u = ANONYMOUS THEN "absent"
  ELSE IF IsLikedBy(cs[c].likes, u) THEN "true" ELSE "false"

\* comments.forEach(comment => { comment.isLiked = ... }) if (req.user)
WithIsLiked(cs, docs, u) ==
  [i \in 1..Len(docs) |->
     [id |-> docs[i].id, content |-> docs[i].content,
      isLiked |-> IsLikedField(cs, docs[i].id, u)]]

\* redisClient.get('comment_threads', cacheKey): a cached thread is the response
ThreadStart(r, u, t, limit) ==
  /\ Free(r)
  /\ LET hit == RedisGet("comment_threads", ThreadCacheKey(t, limit)) IN
     IF hit # {}
       THEN /\ \E e \in hit :
                 /\ view' = View(TRUE, e.val, clock - e.at)
                 /\ last' = Response("thread", 200, "", Len(e.val), FALSE)
            /\ UNCHANGED req
       ELSE /\ req' = [req EXCEPT ![r] =
                         [IdleReq EXCEPT !.op = "thread", !.user = u, !.cid = t,
                                         !.arg = limit,
                                         !.pc = "t_find"]]
            /\ UNCHANGED <<last, view>>
  /\ UNCHANGED <<comments, videos, nextId, cache, clock, redis>>

\* Comment.getCommentThread with limit Math.min(parseInt(limit), 100); an
\* empty result is answered 404
ThreadFind(r) ==
  /\ req[r].pc = "t_find"
  /\ LET result == GetCommentThread(comments, req[r].cid, Min(req[r].arg, ThreadLimitCap)) IN
     IF result = <<>>
       THEN /\ last' = Response("thread", 404, "thread", -1, FALSE)
            /\ req' = [req EXCEPT ![r] = IdleReq]
       ELSE /\ req' = [req EXCEPT ![r].data = WithIsLiked(comments, result, req[r].user),
                                  ![r].pc = "t_set"]
            /\ UNCHANGED last
  /\ UNCHANGED <<comments, videos, nextId, snap>>
  /\ UNCHANGED <<cache, clock, redis, view, inp>>

\* redisClient.set('comment_threads', cacheKey, result, 300) and the response
ThreadSet(r) ==
  /\ req[r].pc = "t_set"
  /\ cache' = RedisSet("comment_threads", ThreadCacheKey(req[r].cid, req[r].arg),
                       req[r].data, ThreadTTL)
  /\ view' = View(FALSE, req[r].data, 0)
  /\ last' = Response("thread", 200, "", Len(req[r].data), FALSE)
  /\ req' = [req EXCEPT ![r] = IdleReq]
  /\ UNCHANGED <<comments, videos, nextId, snap>>
  /\ UNCHANGED <<clock, redis, inp>>

(* ------------------------ the cache and the clock --------------------- *)

\* time passes, and Redis drops the entries whose time to live is over
Tick ==
  /\ clock + TickLen <= MaxClock
  /\ clock' = clock + TickLen
  /\ cache' = {e \in cache : Live(e, clock')}
  /\ UNCHANGED <<comments, videos, nextId, req, last, snap, redis, view, inp>>

\* the connection to Redis is lost ('end': isConnected = false), a command
\* of the client starts failing, or Redis is ready again
Flip(state) ==
  /\ redis # state
  /\ redis' = state
  /\ UNCHANGED <<comments, videos, nextId, req, last, snap, cache, clock, view, inp>>

(* --------------------------- specifications --------------------------- *)

\* a request arrives
Arrive(r) ==
  \/ \E u \in Users, v \in 0..NumVideos, p \in 0..(nextId - 1) : CreateStart(r, u, v, p)
  \/ \E u \in Users, t \in 1..(nextId - 1) : DeleteStart(r, u, t)

\* a request in flight resumes at its next store call
Resume(r) ==
  \/ CreatePreSave(r)
  \/ CreateInsert(r)
  \/ CreateIncVideo(r)
  \/ CreateIncParent(r)
  \/ CreateRespond(r)
  \/ DeleteMany(r)
  \/ DeleteIncVideo(r)
  \/ DeleteCount(r)
  \/ DeleteSetParent(r)
  \/ DeleteRespond(r)

\* requests in flight concurrently
Next ==
  \E r \in Slots :
     \/ Arrive(r) /\ UNCHANGED <<snap, inp>>
     \/ Resume(r)

Spec == Init /\ [][Next]_vars

\* one request at a time: a request arrives when none is in flight, and the
\* store it found is remembered
SeqNext ==
  \E r \in Slots :
     \/ /\ Quiet
        /\ Arrive(r)
        /\ snap' = Snap(req'[r])
        /\ UNCHANGED inp
     \/ Resume(r)

SeqSpec == Init /\ [][SeqNext]_vars

\* the likes of the comments of a short reply chain
LikeInit ==
  /\ comments = Chain(LikedLen)
  /\ videos = [v \in Videos |-> IF v = 1 THEN LikedLen ELSE 0]
  /\ nextId = LikedLen + 1
  /\ req = [r \in Slots |-> IdleReq]
  /\ last = NoResponse
  /\ snap = NoSnap
  /\ CacheInit

\* a like request arrives
ArriveLike(r) ==
  \E u \in Users, t \in 1..(nextId - 1) : LikeStart(r, u, t, "toggle")

\* addLike or removeLike is called on a freshly loaded document
ArriveCall(r) ==
  \E u \in Users, t \in 1..(nextId - 1), m \in {"add", "remove"} : LikeStart(r, u, t, m)

ArriveDelete(r) ==
  \E u \in Users, t \in 1..(nextId - 1) : DeleteStart(r, u, t)

ResumeLike(r) ==
  \/ LikeSave(r)
  \/ LikeRespond(r)
  \/ DeleteMany(r)
  \/ DeleteIncVideo(r)
  \/ DeleteCount(r)
  \/ DeleteSetParent(r)
  \/ DeleteRespond(r)

\* like and delete requests in flight concurrently
LikeNext ==
  \E r \in Slots :
     \/ ArriveLike(r) /\ UNCHANGED <<snap, inp>>
     \/ ArriveDelete(r) /\ UNCHANGED <<snap, inp>>
     \/ ResumeLike(r)

LikeSpec == LikeInit /\ [][LikeNext]_vars

\* one like request, method call or delete request at a time
LikeSeqNext ==
  \E r \in Slots :
     \/ /\ Quiet
        /\ (ArriveLike(r) \/ ArriveCall(r) \/ ArriveDelete(r))
        /\ snap' = Snap(req'[r])
        /\ UNCHANGED inp
     \/ ResumeLike(r)

LikeSeqSpec == LikeInit /\ [][LikeSeqNext]_vars

\* a chain of three comments (the last has a parent and a grandparent), with
\* room for one new comment
ApiInit ==
  /\ comments = Chain(ApiLen)
  /\ videos = [v \in Videos |-> IF v = 1 THEN ApiLen ELSE 0]
  /\ nextId = MaxId
  /\ req = [r \in Slots |-> IdleReq]
  /\ last = NoResponse
  /\ snap = NoSnap
  /\ CacheInit

\* the comment the cached views are about: the last of the chain
ApiLeaf == ApiLen

\* the author of a stored comment
Author(t) == comments[t].userId

\* a create, edit or delete request arrives; the id ApiLen + 1 names no
\* stored comment
WriteArrive(r) ==
  \/ \E u \in Users, v \in 0..NumVideos, p \in 0..(ApiLen + 1) :
        CreateStart(r, u, v, p) /\ inp' = Input("create", u, v, p, 0)
  \/ \E u \in Users, t \in 1..(ApiLen + 1) :
        DeleteStart(r, u, t) /\ inp' = Input("delete", u, 0, t, 0)
  \/ \E u \in Users, t \in 1..(ApiLen + 1), content \in 1..NumTexts :
        EditStart(r, u, t, content) /\ inp' = Input("edit", u, 0, t, content)

WriteResume(r) ==
  \/ CreatePreSave(r)
  \/ CreateInsert(r)
  \/ CreateIncVideo(r)
  \/ CreateIncParent(r)
  \/ CreateRespond(r)
  \/ DeleteMany(r)
  \/ DeleteIncVideo(r)
  \/ DeleteCount(r)
  \/ DeleteSetParent(r)
  \/ DeleteRespond(r)
  \/ EditSave(r)
  \/ EditRespond(r)

\* create, edit and delete requests, one at a time, by any user on any comment
WriteNext ==
  \E r \in Slots :
     \/ Quiet /\ WriteArrive(r) /\ UNCHANGED snap
     \/ WriteResume(r)

WriteSpec == ApiInit /\ [][WriteNext]_vars

\* a request of any kind arrives: a write to the last comment of the chain
\* (or a create on its video), a read of the list of its video, or a read of
\* the thread of one of roots with one of limits
ApiArrive(r, roots, limits) ==
  \/ \E p \in {NULL, ApiLeaf} :
        CreateStart(r, 1, 1, p) /\ inp' = Input("create", 1, 1, p, 0)
  \/ \E u \in AdminUsers :
        DeleteStart(r, u, ApiLeaf) /\ inp' = Input("delete", u, 0, ApiLeaf, 0)
  \/ \E u \in Users, content \in 1..NumTexts :
        EditStart(r, u, ApiLeaf, content) /\ inp' = Input("edit", u, 0, ApiLeaf, content)
  \/ \E u \in AdminUsers :
        LikeStart(r, u, ApiLeaf, "toggle") /\ inp' = Input("like", u, 0, ApiLeaf, 0)
  \/ \E u \in AdminUsers :
        ReportStart(r, u, ApiLeaf, 1) /\ inp' = Input("report", u, 0, ApiLeaf, 1)
  \/ \E page \in 1..NumPages :
        ListStart(r, 1, page, ListLimit, 0) /\ inp' = Input("list", 0, 1, NULL, page)
  \/ \E t \in roots, limit \in limits :
        (ThreadStart(r, ANONYMOUS, t, limit)
                      /\ inp' = Input("thread", ANONYMOUS, 0, t, limit))

CacheResume(r) ==
  \/ CreatePreSave(r)
  \/ CreateInsert(r)
  \/ CreateIncVideo(r)
  \/ CreateIncParent(r)
  \/ CreateRespond(r)
  \/ DeleteMany(r)
  \/ DeleteIncVideo(r)
  \/ DeleteCount(r)
  \/ DeleteSetParent(r)
  \/ DeleteRespond(r)
  \/ EditSave(r)
  \/ EditRespond(r)
  \/ LikeSave(r)
  \/ LikeRespond(r)
  \/ ReportSave(r)
  \/ ReportRespond(r)
  \/ ListFind(r)
  \/ ThreadFind(r)
  \/ ThreadSet(r)

\* reads and writes through the cache, one request at a time; the threads
\* read are those of the last comment and of its grandparent, whole or cut to
\* one comment
CacheNext ==
  \E r \in Slots :
     \/ Quiet /\ ApiArrive(r, {1, ApiLeaf}, {1, ThreadLimit}) /\ UNCHANGED snap
     \/ CacheResume(r)

CacheSpec == ApiInit /\ [][CacheNext]_vars

\* the same requests while the connection to Redis comes and goes
OutageNext ==
  \/ \E r \in Slots :
        \/ Quiet /\ ApiArrive(r, {ApiLeaf}, {ThreadLimit}) /\ UNCHANGED snap
        \/ CacheResume(r)
  \/ \E state \in {"ready", "down", "failing"} : Flip(state)

OutageSpec == ApiInit /\ [][OutageNext]_vars

\* thread reads and edits, one request at a time, while time passes
TtlNext ==
  \/ \E r \in Slots :
        \/ /\ Quiet
           /\ \/ \E t \in {1, ApiLeaf}, limit \in {1, ThreadLimit} :
                   (ThreadStart(r, ANONYMOUS, t, limit)
                      /\ inp' = Input("thread", ANONYMOUS, 0, t, limit))
              \/ \E page \in 1..NumPages :
                   ListStart(r, 1, page, ListLimit, 0) /\ inp' = Input("list", 0, 1, NULL, page)
              \/ \E content \in 1..NumTexts :
                   EditStart(r, Author(ApiLeaf), ApiLeaf, content)
                     /\ inp' = Input("edit", Author(ApiLeaf), 0, ApiLeaf, content)
           /\ UNCHANGED snap
        \/ ThreadFind(r)
        \/ ThreadSet(r)
        \/ ListFind(r)
        \/ EditSave(r)
        \/ EditRespond(r)
  \/ Tick

TtlSpec == ApiInit /\ [][TtlNext]_vars

\* the users who report
Reporters == 1..NumReporters

\* a report request by one of users with one of reasons arrives, about the
\* last comment of the chain or about a comment that is not stored
ReportArrive(r, users, reasons) ==
  \E u \in users, t \in {ApiLeaf, ApiLen + 1}, reason \in reasons :
     /\ ReportStart(r, u, t, reason)
     /\ inp' = [Input("report", u, 0, t, reason) EXCEPT
                  !.reporters = IF t = ApiLeaf /\ reason = SPAM
                                  THEN inp.reporters \cup {u}
                                  ELSE inp.reporters]

\* concurrent report requests with any reason (0: not a valid one), all by
\* one user: the handler does not look at who reports
ReportNext ==
  \E r \in Slots :
     \/ ReportArrive(r, {1}, 0..NumReasons) /\ UNCHANGED snap
     \/ ReportSave(r)
     \/ ReportRespond(r)

ReportSpec == ApiInit /\ [][ReportNext]_vars

\* report requests one at a time by many users, with reason 'spam' or the
\* next one
ReportSeqNext ==
  \E r \in Slots :
     \/ Quiet /\ ReportArrive(r, Reporters, {SPAM, SPAM + 1}) /\ UNCHANGED snap
     \/ ReportSave(r)
     \/ ReportRespond(r)

ReportSeqSpec == ApiInit /\ [][ReportSeqNext]_vars

\* the lengths of the texts sent: empty, one character, and around the limit,
\* bare or with a character of whitespace
Texts ==
  {Text(pad, core) : pad \in 0..MaxPad,
                     core \in {0, 1, MaxContent - 1, MaxContent, MaxContent + 1}}

\* no comment yet or one comment on video 1, and room for MaxNew more
ContentInit ==
  /\ \/ /\ comments = EmptyStore
        /\ videos = [v \in Videos |-> 0]
     \/ /\ comments = Chain(1)
        /\ videos = [v \in Videos |-> IF v = 1 THEN 1 ELSE 0]
  /\ nextId = ChainLen + 1
  /\ req = [r \in Slots |-> IdleReq]
  /\ last = NoResponse
  /\ snap = NoSnap
  /\ CacheInit

\* a create on video 1, or an edit of a stored comment by its author, with
\* any of the texts
ContentArrive(r) ==
  \/ \E u \in Users, text \in Texts :
        PostContent(r, u, 1, text) /\ inp' = Input("create", u, 1, NULL, text)
  \/ \E t \in DOMAIN comments, text \in Texts :
        PutContent(r, Author(t), t, text) /\ inp' = Input("edit", Author(t), 0, t, text)

\* creates and edits with contents of all lengths, one request at a time
ContentNext ==
  \E r \in Slots :
     \/ Quiet /\ ContentArrive(r) /\ UNCHANGED snap
     \/ CreateInsert(r)
     \/ CreateIncVideo(r)
     \/ CreateRespond(r)
     \/ EditSave(r)
     \/ EditRespond(r)

ContentSpec == ContentInit /\ [][ContentNext]_vars

\* a comment and a reply to it on video 1, and room for MaxNew more
RepairInit ==
  /\ comments = Chain(2)
  /\ videos = [v \in Videos |-> IF v = 1 THEN 2 ELSE 0]
  /\ nextId = ChainLen + 1
  /\ req = [r \in Slots |-> IdleReq]
  /\ last = NoResponse
  /\ snap = NoSnap
  /\ CacheInit

\* a create on video 1 under parent p arrives
RepairCreate(r, p) ==
  Quiet /\ CreateStart(r, 1, 1, p) /\ inp' = Input("create", 1, 1, p, 0)
    /\ UNCHANGED snap

\* a delete of comment t by an admin arrives
RepairDelete(r, t) ==
  Quiet /\ (\E u \in AdminUsers : DeleteStart(r, u, t) /\ inp' = Input("delete", u, 0, t, 0))
    /\ UNCHANGED snap

\* the request in flight goes on
RepairResume(r) ==
  \/ CreatePreSave(r)
  \/ CreateInsert(r)
  \/ CreateIncVideo(r)
  \/ CreateIncParent(r)
  \/ CreateRespond(r)
  \/ DeleteMany(r)
  \/ DeleteIncVideo(r)
  \/ DeleteCount(r)
  \/ DeleteSetParent(r)
  \/ DeleteRespond(r)

\* creates and deletes one at a time, any of which may fail between two of
\* its writes
RepairNext ==
  \E r \in Slots :
     \/ \E p \in 0..2 : RepairCreate(r, p)
     \/ \E t \in 1..MaxId : RepairDelete(r, t)
     \/ RepairResume(r)
     \/ Abandon(r)

\* continued operation: a request in flight that does not fail goes on, and
\* every create and delete that can be sent again and again is sent; no
\* failure is ever required
RepairFair ==
  /\ \A r \in Slots : WF_vars(RepairResume(r))
  /\ \A p \in 0..2 : SF_vars(\E r \in Slots : RepairCreate(r, p))
  /\ \A t \in 1..MaxId : SF_vars(\E r \in Slots : RepairDelete(r, t))

RepairSpec == RepairInit /\ [][RepairNext]_vars /\ RepairFair

\* the chain after like requests of any of the users on its last comment
ViewInit ==
  /\ \E likes \in {<<>>} \cup {<<u>> : u \in Users}
                 \cup {<<p[1], p[2]>> : p \in {q \in Users \X Users : q[1] # q[2]}} :
        comments = [Chain(ApiLen) EXCEPT ![ApiLeaf].likes = likes,
                                         ![ApiLeaf].likesCount = Len(likes)]
  /\ videos = [v \in Videos |-> IF v = 1 THEN ApiLen ELSE 0]
  /\ nextId = MaxId
  /\ req = [r \in Slots |-> IdleReq]
  /\ last = NoResponse
  /\ snap = NoSnap
  /\ CacheInit

\* thread requests by any user or by none, one at a time, with no write to
\* the store between them
ViewNext ==
  \E r \in Slots :
     \/ /\ Quiet
        /\ \E u \in {ANONYMOUS} \cup Users, t \in {1, ApiLeaf}, limit \in {1, ThreadLimit} :
              (ThreadStart(r, u, t, limit) /\ inp' = Input("thread", u, 0, t, limit))
        /\ UNCHANGED snap
     \/ ThreadFind(r)
     \/ ThreadSet(r)

ViewSpec == ViewInit /\ [][ViewNext]_vars

\* the chain after four reports of its middle comment, each with another
\* reason, and with the client never connected (constructor: isConnected =
\* false), so that every read is computed from the store
ReadInit ==
  /\ comments = [Chain(ApiLen) EXCEPT
                   ![ApiLen - 1] = AddFlag(AddFlag(AddFlag(AddFlag(@, 1), 2), 3), 4)]
  /\ videos = [v \in Videos |-> IF v = 1 THEN ApiLen ELSE 0]
  /\ nextId = MaxId
  /\ req = [r \in Slots |-> IdleReq]
  /\ last = NoResponse
  /\ snap = NoSnap
  /\ cache = {} /\ clock = 0 /\ redis = "down" /\ view = NoView /\ inp = NoInput

\* a create under any stored comment, a report with the last reason, or a
\* read of a thread (of a stored comment or of none) or of a list arrives
ReadArrive(r) ==
  \/ \E p \in 0..ApiLen :
        CreateStart(r, 1, 1, p) /\ inp' = Input("create", 1, 1, p, 0)
  \/ \E t \in 1..ApiLen :
        ReportStart(r, 1, t, NumReasons) /\ inp' = Input("report", 1, 0, t, NumReasons)
  \/ \E t \in 1..(ApiLen + 1), limit \in {1, 2, ThreadLimit} :
        (ThreadStart(r, ANONYMOUS, t, limit)
           /\ inp' = Input("thread", ANONYMOUS, 0, t, limit))
  \/ \E v \in 0..NumVideos, page \in 1..NumPages :
        ListStart(r, v, page, ListLimit, 0) /\ inp' = Input("list", ANONYMOUS, v, NULL, page)

\* reads from the store between writes, one request at a time
ReadNext ==
  \E r \in Slots :
     \/ Quiet /\ ReadArrive(r) /\ UNCHANGED snap
     \/ CreatePreSave(r)
     \/ CreateInsert(r)
     \/ CreateIncVideo(r)
     \/ CreateIncParent(r)
     \/ CreateRespond(r)
     \/ ReportSave(r)
     \/ ReportRespond(r)
     \/ ThreadFind(r)
     \/ ThreadSet(r)
     \/ ListFind(r)

ReadSpec == ReadInit /\ [][ReadNext]_vars

(* ------------------------------- claims ------------------------------- *)

\* the comments of store cs whose parentId is in S
Children(cs, S) == {c \in DOMAIN cs : cs[c].parentId \in S}

RECURSIVE Below(_, _, _)
\* the comments reached from the set S by following parentId downwards, in at
\* most k rounds
Below(cs, S, k) ==
  IF k = 0 \/ Children(cs, S) = {}
    THEN {}
    ELSE Children(cs, S) \cup Below(cs, Children(cs, S), k - 1)

\* the transitive descendants of comment c via parentId
Descendants(cs, c) == Below(cs, {c}, MaxId)

\* the number of stored comments of video v
StoredOn(v) == Cardinality({c \in DOMAIN comments : comments[c].videoId = v})

\* the number of stored comments whose parentId is p
StoredUnder(p) == Cardinality({c \in DOMAIN comments : comments[c].parentId = p})

\* C1: a create whose parent is at thread.level >= 5 is answered 400 with the
\* nesting-limit error and no step of it changes the store; no stored comment
\* has thread.level > 5
C1_DepthLimit ==
  /\ [](/\ \A c \in DOMAIN comments : comments[c].level <= MaxLevel
        /\ last.deep => last.op = "create" /\ last.status = 400 /\ last.err = "depth")
  /\ [][last'.deep /\ last' # last => comments' = comments /\ videos' = videos]_vars

\* C1: a reply to a stored comment of level 5 has been rejected
C1_Witness ==
  /\ last.deep /\ last.err = "depth"
  /\ \E c \in DOMAIN comments : comments[c].level = MaxLevel

\* C2: every stored comment's thread.level is its number of ancestors: 0 without
\* a parentId, and with one at least 1 and the stored parent's level + 1
C2_LevelIsDepth ==
  \A c \in DOMAIN comments :
     LET p == comments[c].parentId IN
     IF p = NULL
       THEN comments[c].level = 0
       ELSE /\ comments[c].level >= 1
            /\ p \in DOMAIN comments => comments[c].level = comments[p].level + 1

\* C3: a top-level comment's thread.path is empty, and a reply's path ends with
\* "/" and its parentId and is the stored parent's path followed by them
C3_PathIsParentPath ==
  \A c \in DOMAIN comments :
     LET p == comments[c].parentId
         path == comments[c].path
     IN
     IF p = NULL
       THEN path = <<>>
       ELSE /\ Len(path) >= 2
            /\ SubSeq(path, Len(path) - 1, Len(path)) = <<SLASH, p>>
            /\ p \in DOMAIN comments => path = comments[p].path \o <<SLASH, p>>

\* C4: for every stored comment, the comments whose path matches its id are
\* exactly its transitive descendants via parentId
C4_MatchIsSubtree ==
  \A c \in DOMAIN comments :
     {d \in DOMAIN comments : PathMatch(comments[d].path, c)} = Descendants(comments, c)

\* the last request to arrive was a delete that passed its checks and has
\* ended, no other request having run meanwhile
DeleteEnded == Quiet /\ snap.rq.op = "delete"

\* the last request to arrive was a create that passed its checks and has
\* ended, no other request having run meanwhile
CreateEnded == Quiet /\ snap.rq.op = "create"

\* C5: a delete of comment C with N descendants removes C and its descendants
\* and nothing else, answers 200 with deletedCount = N + 1, and lowers the
\* video's commentsCount by N + 1
C5_CascadeDelete ==
  DeleteEnded =>
    LET C == snap.rq.cid
        D == {C} \cup Descendants(snap.comments, C)
        v == snap.rq.video
    IN /\ DOMAIN comments = (DOMAIN snap.comments) \ D
       /\ last.op = "delete" /\ last.status = 200 /\ last.out = Cardinality(D)
       /\ videos = [snap.videos EXCEPT ![v] = @ - Cardinality(D)]

\* C5, the store's part: the same without the response
C5_CascadeDeleteStore ==
  DeleteEnded =>
    LET C == snap.rq.cid
        D == {C} \cup Descendants(snap.comments, C)
        v == snap.rq.video
    IN /\ DOMAIN comments = (DOMAIN snap.comments) \ D
       /\ videos = [snap.videos EXCEPT ![v] = @ - Cardinality(D)]

\* C6: after a delete of a reply, its parent's repliesCount is the number of
\* stored comments with that parentId; a delete of a top-level comment leaves
\* every remaining comment's repliesCount as it was
C6_ParentRecount ==
  DeleteEnded =>
    LET P == snap.rq.parent IN
    IF P # NULL
      THEN P \in DOMAIN comments /\ comments[P].repliesCount = StoredUnder(P)
      ELSE \A c \in DOMAIN comments :
              comments[c].repliesCount = snap.comments[c].repliesCount

\* C6: a reply was deleted whose parent had two replies and keeps one
C6_Witness ==
  /\ DeleteEnded
  /\ snap.rq.parent \in DOMAIN comments
  /\ snap.comments[snap.rq.parent].repliesCount = 2
  /\ comments[snap.rq.parent].repliesCount = 1

\* C7: a create adds exactly the new comment, raises its video's
\* commentsCount by 1 and its parent's repliesCount by 1, and changes no other
\* comment and no other video
C7_CreateFrame ==
  CreateEnded =>
    LET id == snap.rq.cid
        p == snap.rq.parent
        v == snap.rq.video
    IN /\ id \notin DOMAIN snap.comments
       /\ DOMAIN comments = (DOMAIN snap.comments) \cup {id}
       /\ comments[id].repliesCount = 0
       /\ videos = [snap.videos EXCEPT ![v] = @ + 1]
       /\ \A c \in DOMAIN snap.comments :
             comments[c] = IF c = p
                             THEN [snap.comments[c] EXCEPT !.repliesCount = @ + 1]
                             ELSE snap.comments[c]

\* C7: a reply was created under a comment that itself has a parent
C7_Witness ==
  /\ CreateEnded
  /\ snap.rq.parent \in DOMAIN comments
  /\ comments[snap.rq.parent].parentId # NULL
  /\ comments[snap.rq.parent].repliesCount = 2

\* C8: when no request is in flight, every video's commentsCount is the number
\* of stored comments of that video
C8_CommentsCountSettles ==
  Quiet => \A v \in Videos : videos[v] = StoredOn(v)

\* C8: all requests have ended, and a create and a delete overlapped: a stored
\* reply's parent was deleted while the reply was being created
C8_Witness ==
  /\ Quiet
  /\ \E c \in DOMAIN comments :
        comments[c].parentId # NULL /\ comments[c].parentId \notin DOMAIN comments
  /\ \E v \in Videos : videos[v] > 0 /\ videos[v] < Cardinality(DOMAIN ChainStore)

\* C9: when no request is in flight, every stored comment's repliesCount is the
\* number of stored comments with it as parentId
C9_RepliesCountSettles ==
  Quiet => \A p \in DOMAIN comments : comments[p].repliesCount = StoredUnder(p)

\* C10: every stored comment's likesCount is the length of its likes
C10_LikesCount ==
  \A c \in DOMAIN comments : comments[c].likesCount = Len(comments[c].likes)

\* C10: a like request has ended and a comment has the likes of two users
C10_Witness ==
  /\ Quiet /\ last.op = "like" /\ last.status = 200 /\ last.out = 2
  /\ \E c \in DOMAIN comments : Len(comments[c].likes) = 2

\* a call of addLike (m = "add") or removeLike (m = "remove") on a freshly
\* loaded comment has been saved, no other request having run meanwhile
CallEnded(m) == Quiet /\ snap.rq.op = m /\ snap.rq.cid \in DOMAIN comments

\* C11: after addLike(u) the user is in likes, and addLike(u) on a comment u
\* already likes changes nothing stored (so twice is once); after
\* removeLike(u) the user is not in likes, and removeLike(u) on a comment u
\* does not like changes nothing stored (so twice is once)
C11_LikeIdempotent ==
  LET t == snap.rq.cid
      u == snap.rq.user
  IN /\ CallEnded("add") =>
          /\ IsLikedBy(comments[t].likes, u)
          /\ IsLikedBy(snap.comments[t].likes, u) => comments = snap.comments
     /\ CallEnded("remove") =>
          /\ ~IsLikedBy(comments[t].likes, u)
          /\ ~IsLikedBy(snap.comments[t].likes, u) => comments = snap.comments

\* C11: addLike(u) has run on a comment that u and another user already liked
C11_Witness ==
  /\ CallEnded("add") /\ last.op = "like" /\ last.status = 200
  /\ IsLikedBy(snap.comments[snap.rq.cid].likes, snap.rq.user)
  /\ Len(comments[snap.rq.cid].likes) = 2

\* C12: when a like request that loaded the comment without likes saves its
\* like after the like of another user was saved meanwhile, the stored likes
\* hold both users and likesCount is 2
C12_ConcurrentLikes ==
  [][\A r \in Slots :
       LET t == req[r].cid
           u == req[r].user
       IN (/\ req[r].pc = "l_save" /\ req'[r].pc = "l_respond"
           /\ req[r].likes = <<>>
           /\ t \in DOMAIN comments
           /\ Len(comments[t].likes) = 1 /\ comments[t].likes[1] # u)
          => /\ t \in DOMAIN comments'
             /\ IsLikedBy(comments'[t].likes, u)
             /\ IsLikedBy(comments'[t].likes, comments[t].likes[1])
             /\ Len(comments'[t].likes) = 2
             /\ comments'[t].likesCount = 2]_vars

(* ------------------------------ the cache ------------------------------ *)

\* the latest request was m on comment t, it ran alone and was answered 200
Answered(m, t) ==
  Quiet /\ inp.op = m /\ inp.target = t /\ last.op = m /\ last.status = 200

\* a write under video v that was answered with success is in the store: a
\* comment of v is edited, liked or flagged
WrittenUnder(v) ==
  \E c \in DOMAIN comments :
     /\ comments[c].videoId = v
     /\ comments[c].isEdited \/ comments[c].likes # <<>> \/ comments[c].flags # <<>>

\* C13: a list request for a video that follows a completed write under the
\* video finds no cached page and is answered from the store (200, not from
\* the cache), and no cached page of the video is left after the write
C13_ListAfterWrite ==
  /\ (Quiet /\ inp.op = "list" /\ last.op = "list" /\ WrittenUnder(inp.video))
        => (last.status = 200 /\ ~view.cached)
  /\ \A t \in DOMAIN comments :
        (\E m \in {"edit", "like", "report"} : Answered(m, t))
          => \A e \in cache :
                ~(e.key.ns = "comments" /\ e.key.args[1] = comments[t].videoId)

\* the root of a cached thread entry
Root(e) == e.key.args[1]

\* C14: once a write to comment X was answered, no thread entry remains in
\* the cache whose root is X or an ancestor of X
C14_ThreadsPurged ==
  \A x \in DOMAIN comments :
     (\E m \in {"edit", "like", "report"} : Answered(m, x))
       => \A e \in cache :
             ~(/\ e.key.ns = "comment_threads"
               /\ Root(e) = x \/ PathMatch(comments[x].path, Root(e)))

\* C15: a list page or a thread served from the cache was stored less than
\* its time to live ago (600 s for a page, 300 s for a thread), and every
\* entry in the cache has the time to live of its kind and has not outlived it
C15_TtlBound ==
  /\ (view.cached /\ inp.op = "thread") => view.age < ThreadTTL
  /\ (view.cached /\ inp.op = "list") => view.age < ListTTL
  /\ \A e \in cache :
        /\ e.key.ns = "comment_threads" => e.ttl = ThreadTTL
        /\ e.key.ns = "comments" => e.ttl = ListTTL
        /\ Live(e, clock)

\* C15: a thread is served from the cache some time after it was stored,
\* with the content a comment had before an edit that purged nothing
C15_Witness ==
  /\ Quiet /\ inp.op = "thread" /\ last.op = "thread" /\ last.status = 200
  /\ view.cached /\ view.age > 0
  /\ view.data # GetCommentThread(comments, inp.target, Min(inp.arg, ThreadLimitCap))

\* C16: a request that is answered while Redis is disconnected or its
\* commands fail is not answered with a server error: reads are computed from
\* the store and writes return their success response
C16_CacheFailureTolerated ==
  [][(redis # "ready" /\ last' # last) => last'.status # 500]_vars

(* ------------------------- checks of the writes ------------------------ *)

\* the latest request is a create on a stored video under a parent that is
\* not stored, or under one stored on another video
MissingParent(i) ==
  /\ i.op = "create" /\ i.video \in Videos
  /\ i.target # NULL /\ i.target \notin DOMAIN comments

CrossVideoParent(i) ==
  /\ i.op = "create" /\ i.video \in Videos
  /\ i.target \in DOMAIN comments /\ comments[i.target].videoId # i.video

\* every stored reply whose parent is stored is on the video of its parent
RepliesOnParentVideo(cs) ==
  \A c \in DOMAIN cs :
     (cs[c].parentId # NULL /\ cs[c].parentId \in DOMAIN cs)
       => cs[c].videoId = cs[cs[c].parentId].videoId

\* C17: a create under a missing parent and a create under a parent of
\* another video are both refused, with different errors (here: for two
\* such requests in a row); neither stores anything or changes a counter, and
\* every stored reply is on the video of its parent
C17_ParentErrors ==
  [][/\ (Quiet /\ Quiet' /\ inp' # inp /\ (MissingParent(inp') \/ CrossVideoParent(inp')))
          => /\ last'.op = "create" /\ last'.status \in {400, 404}
             /\ comments' = comments /\ videos' = videos
     /\ (Quiet /\ Quiet' /\ CrossVideoParent(inp) /\ MissingParent(inp'))
          => [status |-> last'.status, err |-> last'.err]
               # [status |-> last.status, err |-> last.err]
     /\ RepliesOnParentVideo(comments')]_vars

\* a request arrives while no other is in flight
Arrives(m) == Quiet /\ inp'.op = m /\ <<req, last, inp>>' # <<req, last, inp>>

\* the arriving request is refused with status code, and nothing stored changes
Refused(code) ==
  /\ Quiet' /\ last'.op = inp'.op /\ last'.status = code
  /\ comments' = comments /\ videos' = videos

NoDuplicate(s) == \A i, j \in 1..Len(s) : s[i] = s[j] => i = j

\* x is in sequence s
Has(s, x) == \E i \in 1..Len(s) : s[i] = x

\* C19: a report whose reason is already in moderation.flags stores nothing
\* and is answered 200; flags changes only by one new reason appended, with
\* reportsCount one higher; status is pending exactly on the comments whose
\* reportsCount is 5 or more; flags never holds a reason twice, and
\* reportsCount is the number of flags
C19_Flags ==
  [][/\ \A c \in DOMAIN comments' :
          /\ NoDuplicate(comments'[c].flags)
          /\ comments'[c].reportsCount = Len(comments'[c].flags)
          /\ comments'[c].status = "pending" <=> comments'[c].reportsCount >= ReportThreshold
     /\ (/\ inp' # inp /\ inp'.op = "report" /\ inp'.target \in DOMAIN comments
         /\ Has(comments[inp'.target].flags, inp'.arg))
          => (comments' = comments /\ req' = req /\ last'.op = "report" /\ last'.status = 200)
     /\ \A c \in DOMAIN comments :
          (c \in DOMAIN comments' /\ comments'[c].flags # comments[c].flags)
            => \E reason \in Reasons :
                  /\ ~Has(comments[c].flags, reason)
                  /\ comments'[c].flags = Append(comments[c].flags, reason)
                  /\ comments'[c].reportsCount = comments[c].reportsCount + 1
    ]_vars

\* C19: a comment flagged with all five reasons, hence pending, has been
\* reported again with one of them and the report was answered 200
C19_Witness ==
  /\ Quiet /\ inp.op = "report" /\ inp.target \in DOMAIN comments
  /\ last.op = "report" /\ last.status = 200
  /\ Len(comments[inp.target].flags) = NumReasons
  /\ comments[inp.target].status = "pending"
  /\ Has(comments[inp.target].flags, inp.arg)

\* C20: once five users have each reported the comment with reason 'spam',
\* its status is pending, and 'spam' is in its flags once however many
\* reports follow
C20_FiveSpamReports ==
  (Quiet /\ ApiLeaf \in DOMAIN comments)
    => /\ Cardinality(inp.reporters) >= ReportThreshold
            => comments[ApiLeaf].status = "pending"
       /\ Cardinality({i \in 1..Len(comments[ApiLeaf].flags) :
                         comments[ApiLeaf].flags[i] = SPAM}) <= 1

(* ------------------------------- threads ------------------------------- *)

\* the latest request was a thread request answered 200 from the store
ThreadComputed ==
  /\ Quiet /\ inp.op = "thread" /\ last.op = "thread" /\ last.status = 200
  /\ ~view.cached

\* the approved comments that are c or have c as an ancestor
ApprovedThread(c) ==
  {d \in (DOMAIN comments \cap {c}) \cup Descendants(comments, c) :
     comments[d].status = "approved"}

\* comment c is ahead of d in the order of a thread: lower level first, then
\* the one created first
Ahead(c, d) ==
  \/ comments[c].level < comments[d].level
  \/ comments[c].level = comments[d].level /\ c < d

\* the ids of the comments of a response, in its order
Ids(data) == [i \in 1..Len(data) |-> data[i].id]

\* C21: a thread computed for root and limit holds only approved comments that
\* are the root or have it as an ancestor, each once, in the order of level
\* and then creation; it holds limit of them, or all when they are fewer, and
\* none that is left out is ahead of one that is in
C21_ThreadContent ==
  ThreadComputed =>
    LET ids == Ids(view.data)
        all == ApprovedThread(inp.target)
        in == {ids[i] : i \in 1..Len(ids)}
    IN /\ in \subseteq all
       /\ \A i, j \in 1..Len(ids) : i < j => Ahead(ids[i], ids[j])
       /\ Len(ids) = Min(inp.arg, Cardinality(all))
       /\ \A c \in all \ in : \A d \in in : Ahead(d, c)

\* C21: a thread was computed in which a later comment of a lower level comes
\* before an earlier one, and from which a comment that is not approved is
\* left out
C21_Witness ==
  /\ ThreadComputed
  /\ \E i, j \in 1..Len(view.data) : i < j /\ view.data[i].id > view.data[j].id
  /\ \E c \in Descendants(comments, inp.target) : comments[c].status # "approved"

\* the stored replies to comment p
RepliesTo(p) == {c \in DOMAIN comments : comments[c].parentId = p}

\* C22: a reply stored under an approved parent has the parent's id as a
\* segment of its thread.path, and a thread request for the parent with a
\* limit above the size of the thread is answered with a thread that holds
\* the reply, also when a thread of the parent was in the cache before the
\* reply was created
C22_ReplyInThread ==
  /\ \A c \in DOMAIN comments :
        (comments[c].parentId # NULL /\ comments[c].parentId \in DOMAIN comments)
          => PathMatch(comments[c].path, comments[c].parentId)
  /\ (/\ Quiet /\ inp.op = "thread" /\ last.op = "thread" /\ last.status = 200
      /\ inp.arg > Cardinality(DOMAIN comments)
      /\ inp.target \in DOMAIN comments /\ comments[inp.target].status = "approved")
       => \A c \in RepliesTo(inp.target) :
             comments[c].status = "approved"
               => \E i \in 1..Len(view.data) : view.data[i].id = c

\* C23: a thread request for a root that is not stored is answered 404, and a
\* thread request answered 200 carries a list whose first element is the root
\* and whose other elements are descendants of the root
C23_ThreadRoot ==
  (Quiet /\ inp.op = "thread" /\ last.op = "thread")
    => /\ inp.target \notin DOMAIN comments => last.status = 404
       /\ last.status = 200
            => /\ view.data # <<>>
               /\ view.data[1].id = inp.target
               /\ \A i \in 2..Len(view.data) :
                     view.data[i].id \in Descendants(comments, inp.target)

(* -------------------------------- lists -------------------------------- *)

\* the approved comments of video v that are no replies
TopLevel(v) ==
  {c \in DOMAIN comments :
     /\ comments[c].videoId = v /\ comments[c].parentId = NULL
     /\ comments[c].status = "approved"}

\* C24: a list request for a stored video is answered 200 with approved
\* comments of the video that are no replies, at most limit of them, and a
\* list request for a video that is not stored is answered 404
C24_ListContent ==
  (Quiet /\ inp.op = "list" /\ last.op = "list")
    => IF inp.video \in Videos
         THEN /\ last.status = 200
              /\ \A i \in 1..Len(view.data) : view.data[i].id \in TopLevel(inp.video)
              /\ Len(view.data) = Min(ListLimit, Cardinality(TopLevel(inp.video)))
         ELSE last.status = 404

(* ------------------------------- content ------------------------------- *)

\* the trimmed length of a text is between 1 and 500
ValidLength(text) == Core(text) >= 1 /\ Core(text) <= MaxContent

\* C25: a create or an edit whose content has a trimmed length outside 1..500
\* is answered 400 and stores nothing, and the content of every stored comment
\* has a trimmed length between 1 and 500
C25_ContentLength ==
  [][/\ ((Arrives("create") \/ Arrives("edit")) /\ ~ValidLength(inp'.arg))
          => Refused(400)
     /\ \A c \in DOMAIN comments' : ValidLength(comments'[c].content)]_vars

(* ------------------------------ counters ------------------------------- *)

\* the stored comments one of whose ancestors (an id of their thread.path or
\* their parentId) is no longer stored
Orphans ==
  {c \in DOMAIN comments :
     \/ comments[c].parentId # NULL /\ comments[c].parentId \notin DOMAIN comments
     \/ \E i \in 1..Len(comments[c].path) :
           comments[c].path[i] # SLASH /\ comments[c].path[i] \notin DOMAIN comments}

\* C26: no video's commentsCount and no comment's repliesCount is negative,
\* and a delete request on a stored comment whose ancestor was deleted finds
\* and removes it
C26_NoNegativeCounter ==
  /\ \A v \in Videos : videos[v] >= 0
  /\ \A c \in DOMAIN comments : comments[c].repliesCount >= 0
  /\ \A c \in Orphans : c \in Matched(comments, c)

\* every counter is the number it counts
Accurate ==
  /\ \A v \in Videos : videos[v] = StoredOn(v)
  /\ \A c \in DOMAIN comments : comments[c].repliesCount = StoredUnder(c)

\* C27: whenever a counter differs from the number it counts (as after a
\* request that stopped between its write to the comments and its counter
\* update), the counters are accurate again at some later time
C27_CountersRepaired == (~Accurate) ~> Accurate

(* ----------------------------- read-through ---------------------------- *)

\* the cache key of the latest read request
KeyOf(i) ==
  IF i.op = "list"
    THEN GenerateKey("comments", ListCacheKey(i.video, i.arg, ListLimit, 0))
    ELSE GenerateKey("comment_threads", ThreadCacheKey(i.target, i.arg))

\* C28: a list or thread request that finds an entry under the key of its
\* parameters is answered with the value of that entry; one that finds none
\* is answered 200 with the result computed from the store (or 404 for a
\* missing video or thread) and leaves the result in the cache under that key,
\* where the same request finds it again
C28_ReadThrough ==
  [][(Quiet' /\ ~(Quiet /\ UNCHANGED <<req, last, view>>) /\ inp'.op \in {"list", "thread"}
        /\ last'.op = inp'.op /\ redis = "ready")
       => LET hit == ClientGet(cache, KeyOf(inp')) IN
          IF hit # {}
            THEN /\ last'.status = 200 /\ view'.cached
                 /\ \E e \in hit : view'.data = e.val
            ELSE /\ last'.status \in {200, 404}
                 /\ last'.status = 200
                      => /\ ~view'.cached
                         /\ \E e \in ClientGet(cache', KeyOf(inp')) : e.val = view'.data
    ]_vars

(* -------------------------------- likes -------------------------------- *)

\* C29: the likes of a stored comment hold each user at most once
C29_OneLikePerUser ==
  \A c \in DOMAIN comments :
     \A i, j \in 1..Len(comments[c].likes) :
        comments[c].likes[i] = comments[c].likes[j] => i = j

\* C30: the isLiked of every comment of a thread response is what the stored
\* likes give for the user who sent the request (and is left out for a
\* request without a user), whoever sent the request that filled the cache
C30_IsLikedOfRequester ==
  (Quiet /\ inp.op = "thread" /\ last.op = "thread" /\ last.status = 200)
    => \A i \in 1..Len(view.data) :
          view.data[i].isLiked = IsLikedField(comments, view.data[i].id, inp.user)

====
